---- MODULE Spec2Model ----
(***************************************************************************)
(* kube-scheduler: jobs of a schedule file are registered with a cron      *)
(* runner; every firing runs in a goroutine of its own, takes the job's    *)
(* entry of the run lock table, creates / watches / deletes one kubernetes *)
(* job and releases the entry.                                             *)
(*                                                                         *)
(* The repository holds two revisions of the scheduler core.  rev = "main" *)
(* is kube-scheduler.go's Manager / Job.Run / createTaskJob; rev = "pkg"   *)
(* is the scheduler package's client (Running / StartJob / FinishJob,      *)
(* keyed by jobKey) driving kubernetes.client.RunJob.                      *)
(*                                                                         *)
(* Strings whose content matters (job names, namespaces, condition         *)
(* messages) are sequences of one-character strings.                       *)
(***************************************************************************)
EXTENDS Integers, Sequences, FiniteSets, Bags, TLC

VARIABLES
    rev,          \* which revision of the scheduler core runs
    jobList,      \* the registry: job name -> Job
    todo,         \* registry names main's registration loop has not visited yet
    pending,      \* registration goroutines spawned, AddFunc not yet called
    entries,      \* names that have an entry in the cron runner
    cronRunning,  \* cronManager.Start() was called
    jobLock,      \* the run lock table: key -> marker
    goroutines,   \* bag of the cron callbacks in flight (one record each)
    crashed,      \* the process died of an unrecovered panic
    stopped,      \* cronManager.Stop() was called
    notified,     \* the notifier call made by the last step, if it made one
    notifier,     \* the notifier client: its revision and its environment
    notifyOut,    \* what Notify returned for the deliveries retryFn describes
    retryFn,      \* the operation handed to autoRetry (its outcome per call)
    retryOut      \* what autoRetry returned for retryFn

vars == <<rev, jobList, todo, pending, entries, cronRunning, jobLock,
          goroutines, crashed, stopped, notified, notifier, notifyOut,
          retryFn, retryOut>>

schedVars == <<rev, jobList, todo, pending, entries, cronRunning, jobLock,
               goroutines, crashed, stopped, notified>>

retryVars == <<retryFn, retryOut>>

notifyVars == <<notifier, notifyOut>>

-----------------------------------------------------------------------------
(* Bounds *)

\* cron callbacks that may be in flight at the same time
MaxGoroutines == 2

\* calls for which the behaviour of an operation handed to autoRetry is given
MaxCalls == 4

-----------------------------------------------------------------------------
(* Strings *)

NoVerb == <<"%", "!", "(", "N", "O", "V", "E", "R", "B", ")">>

Missing == <<"(", "M", "I", "S", "S", "I", "N", "G", ")">>

\* fmt.Sprintf(format) with no operands: "%%" prints "%", a verb without an
\* operand prints "%!v(MISSING)", a "%" at the end prints "%!(NOVERB)".
RECURSIVE Sprintf(_)
Sprintf(format) ==
    IF format = <<>> THEN <<>>
    ELSE IF Head(format) # "%" THEN <<Head(format)>> \o Sprintf(Tail(format))
    ELSE IF Len(format) = 1 THEN NoVerb
    ELSE IF format[2] = "%"
         THEN <<"%">> \o Sprintf(SubSeq(format, 3, Len(format)))
         ELSE <<"%", "!", format[2]>> \o Missing
                  \o Sprintf(SubSeq(format, 3, Len(format)))

\* strings.Contains
Contains(s, sub) ==
    \E i \in 1..(Len(s) - Len(sub) + 1) : SubSeq(s, i, i + Len(sub) - 1) = sub

-----------------------------------------------------------------------------
(* Errors *)

Nil == [kind |-> "nil", msg |-> <<>>]

Error(kind, msg) == [kind |-> kind, msg |-> msg]

\* fmt.Errorf(format): the format string is the only operand
Errorf(format) == Error("failed", Sprintf(format))

-----------------------------------------------------------------------------
(* The registry *)

Names == {<<"a">>, <<"a", "b">>}

Job(cron, args, namespace) ==
    [Cron |-> cron, Template |-> "job.json", Description |-> "d",
     Args |-> args, Namespace |-> namespace]

\* Schedule files: two jobs whose name + namespace read the same ("a" + "bc",
\* "ab" + "c"), two jobs that differ in their args only, and a job with an
\* empty cron beside a scheduled one.
Registry(a, ab) == [name \in Names |-> IF name = <<"a">> THEN a ELSE ab]

JobLists ==
    { Registry(Job("* * * * *", <<>>, <<"b", "c">>), Job("* * * * *", <<>>, <<"c">>)),
      Registry(Job("* * * * *", <<>>, <<"c">>), Job("* * * * *", <<"x">>, <<"c">>)),
      Registry(Job("", <<>>, <<"c">>), Job("* * * * *", <<>>, <<"c">>)) }

\* Job.Equal: Args are not compared
Equal(j, job) ==
    /\ j.Cron = job.Cron
    /\ j.Template = job.Template
    /\ j.Description = job.Description
    /\ j.Namespace = job.Namespace

\* Manager.NameFromJob: the names the range over the map may return for j
\* (the iteration order of a Go map is not specified)
NameFromJob(list, j) == {k \in DOMAIN list : Equal(list[k], j)}

\* scheduler.jobKey
jobKey(name, job) == name \o job.Namespace

-----------------------------------------------------------------------------
(* The run lock table *)

EmptyLock == [k \in {} |-> "running"]

\* Manager.ReadFromJobLock: the ok of the map read
ReadFromJobLock(lock, template) == template \in DOMAIN lock

\* Manager.WriteToJobLock
WriteToJobLock(lock, template, state) ==
    [k \in DOMAIN lock \cup {template} |->
        IF k = template THEN state ELSE lock[k]]

\* the release forgotten
DeleteFromJobLockKeeps(lock, template) == lock

\* Manager.DeleteFromJobLock
DeleteFromJobLock(lock, template) ==
    [k \in DOMAIN lock \ {template} |-> lock[k]]

\* client.Running
Running(lock, name, job) == jobKey(name, job) \in DOMAIN lock

\* client.StartJob
StartJob(lock, name, job) ==
    [k \in DOMAIN lock \cup {jobKey(name, job)} |->
        IF k = jobKey(name, job) THEN "running" ELSE lock[k]]

\* a FinishJob that empties the table
FinishJobAll(lock, name, job) == EmptyLock

\* client.FinishJob
FinishJob(lock, name, job) ==
    [k \in DOMAIN lock \ {jobKey(name, job)} |-> lock[k]]

-----------------------------------------------------------------------------
(* autoRetry *)

\* An operation handed to autoRetry is given by what its calls return, in
\* order: "ok" (a result and no error) or the error of that call.
CallOutcomes == {"ok", "errA", "errB"}

RetryFns == [1..MaxCalls -> CallOutcomes]

NotRun == [thing |-> "none", err |-> "none", calls |-> 0, sleeps |-> 0]

Attempts == 3

\* the loop of autoRetry, entered with `attempts` failed attempts behind it
RECURSIVE autoRetryLoop(_, _, _)
autoRetryLoop(fn, attempts, err) ==
    IF attempts < Attempts
    THEN IF fn[attempts + 1] = "ok"
         THEN [thing |-> "thing", err |-> "nil",
               calls |-> attempts + 1, sleeps |-> attempts]
         ELSE autoRetryLoop(fn, attempts + 1, fn[attempts + 1])
    ELSE [thing |-> "nil", err |-> err, calls |-> attempts, sleeps |-> attempts]

\* the loop with its bound off by one: `attempts <= 3`
RECURSIVE autoRetryLoopOffByOne(_, _, _)
autoRetryLoopOffByOne(fn, attempts, err) ==
    IF attempts <= Attempts
    THEN IF fn[attempts + 1] = "ok"
         THEN [thing |-> "thing", err |-> "nil",
               calls |-> attempts + 1, sleeps |-> attempts]
         ELSE autoRetryLoopOffByOne(fn, attempts + 1, fn[attempts + 1])
    ELSE [thing |-> "nil", err |-> err, calls |-> attempts, sleeps |-> attempts]

autoRetryOffByOne(fn) == autoRetryLoopOffByOne(fn, 0, "nil")

\* the loop with its pause ahead of every call, the first one included
RECURSIVE autoRetryLoopSleepsFirst(_, _, _)
autoRetryLoopSleepsFirst(fn, attempts, err) ==
    IF attempts < Attempts
    THEN IF fn[attempts + 1] = "ok"
         THEN [thing |-> "thing", err |-> "nil",
               calls |-> attempts + 1, sleeps |-> attempts + 1]
         ELSE autoRetryLoopSleepsFirst(fn, attempts + 1, fn[attempts + 1])
    ELSE [thing |-> "nil", err |-> err, calls |-> attempts, sleeps |-> attempts]

autoRetrySleepsFirst(fn) == autoRetryLoopSleepsFirst(fn, 0, "nil")

autoRetry(fn) == autoRetryLoop(fn, 0, "nil")

\* the operations the scheduler hands to autoRetry: k failing calls, then ok
FailsThenOk(k) == [i \in 1..MaxCalls |-> IF i <= k THEN "errA" ELSE "ok"]

RemoteFns == {FailsThenOk(k) : k \in 0..MaxCalls}

-----------------------------------------------------------------------------
(* notifier *)

\* The revisions of the package: Sentry with the usingSentry flag, Honeybadger
\* with the usingHoneybadger flag, Sentry with no flag.
NotifierRevs == {"sentry flag", "honeybadger", "sentry"}

\* what NewClient is given: the revision and whether the environment names a
\* channel (SENTRY_DSN, the Honeybadger API key)
Notifiers == [rev : NotifierRevs, dsn : BOOLEAN]

\* NewClient: the flag is set when the channel is named; the last revision
\* has no flag
NewClient(n) ==
    IF n.rev = "sentry" THEN [rev |-> n.rev] ELSE [rev |-> n.rev, using |-> n.dsn]

\* notifySentry / notifyHoneybadger: one call of it.  `outcome` is what the
\* library answers if it is asked to deliver.
notifyChannel(c, outcome) ==
    IF c.rev # "sentry" /\ ~c.using
    THEN [err |-> "nil", delivered |-> 0]
    ELSE [err |-> IF outcome = "ok" THEN "nil" ELSE outcome, delivered |-> 1]

NotNotified == [err |-> "none", calls |-> 0, deliveries |-> 0, sleeps |-> 0]

NotifyAttempts == 3

\* the loop of Notify
RECURSIVE NotifyLoop(_, _, _, _, _)
NotifyLoop(c, fn, attempts, nErr, deliveries) ==
    IF attempts < NotifyAttempts
    THEN LET r == notifyChannel(c, fn[attempts + 1])
         IN  IF r.err = "nil"
             THEN [err |-> "nil", calls |-> attempts + 1,
                   deliveries |-> deliveries + r.delivered, sleeps |-> attempts]
             ELSE NotifyLoop(c, fn, attempts + 1, r.err, deliveries + r.delivered)
    ELSE [err |-> nErr, calls |-> attempts, deliveries |-> deliveries,
          sleeps |-> attempts]

\* a Notify that reports its own failure through the channel once more
NotifyEscalates(c, fn) ==
    LET out == NotifyLoop(c, fn, 0, "nil", 0)
    IN  IF out.err = "nil" THEN out
        ELSE [out EXCEPT !.deliveries = @ + 1]

\* client.Notify: the local log, then the loop; a failure of the last attempt
\* is logged and returned
Notify(c, fn) == NotifyLoop(c, fn, 0, "nil", 0)

-----------------------------------------------------------------------------
(* What the cluster and the file system may answer *)

\* the job template file, as the run finds it: it cannot be read, it is no
\* JSON of a job, or it is a job with a first container
Templates == {"unreadable", "unparsable", "ok"}

Messages == {<<"O", "O", "M">>, <<"%", "d">>}

Condition(type, message) == [Type |-> type, Message |-> message]

\* the condition types a run ends at
Terminal == {"Complete", "Failed"}

\* a watch event carries the job's Status.Conditions, in their order; a
\* condition may be of a type that is neither Complete nor Failed
Events ==
    {<<>>, <<Condition("Complete", <<>>)>>, <<Condition("Suspended", <<>>)>>,
     <<Condition("Suspended", <<>>), Condition("Complete", <<>>)>>,
     <<Condition("Suspended", <<>>), Condition("Failed", <<"O", "O", "M">>)>>}
        \cup {<<Condition("Failed", m)>> : m \in Messages}

\* the event carries a condition of a terminal type, at any place
CarriesTerminal(event) == \E i \in DOMAIN event : event[i].Type \in Terminal

-----------------------------------------------------------------------------
(* Goroutines of the cron runner: one record per callback in flight *)

NoKey == <<>>

NoCondition == Condition("none", <<>>)

\* name: the entry that fired; key: the lock key of the run; clusterJob: the
\* remote job exists; stream: what the loop has read from the watch ("none":
\* no event, "idle": events without a terminal condition only, "terminal": an
\* event that carries one); condition: the terminal condition the loop
\* stopped at; err: the error of the run; deletes: delete passes made for
\* clusterJob; dErr: the delete failed; panic: the run is unwinding a panic
Callback(name) ==
    [name |-> name, pc |-> "fired", key |-> NoKey, clusterJob |-> FALSE,
     stream |-> "none", condition |-> NoCondition, err |-> Nil, deletes |-> 0,
     dErr |-> FALSE, panic |-> FALSE]

\* the loop has read `event`
Read(stream, event) ==
    IF stream = "terminal" \/ CarriesTerminal(event) THEN "terminal" ELSE "idle"

Live == BagToSet(goroutines)

Replace(g, h) == (goroutines (-) SetToBag({g})) (+) SetToBag({h})

Remove(g) == goroutines (-) SetToBag({g})

\* how many goroutines of the bag are in the set S of records
RECURSIVE Copies(_)
Copies(S) ==
    IF S = {} THEN 0
    ELSE LET g == CHOOSE x \in S : TRUE
         IN  CopiesIn(g, goroutines) + Copies(S \ {g})

\* no notifier call
NoCall == [name |-> <<>>, err |-> Nil]

\* between the write of the lock entry and its release
InFlight(g) == g.pc \in {"running", "created", "watching", "deleting", "returned"}

-----------------------------------------------------------------------------
(* main: registration *)

\* main's loop over the job list: jobs without a schedule are skipped, the
\* others get a goroutine that will call AddFunc
\* the loop without its `continue`
RegistersAll(job) == TRUE

Registers(job) == job.Cron # ""

MainLoop(name) ==
    /\ ~crashed
    /\ name \in todo
    /\ todo' = todo \ {name}
    /\ pending' = IF Registers(jobList[name]) THEN pending \cup {name} ELSE pending
    /\ UNCHANGED <<rev, jobList, entries, cronRunning, jobLock, goroutines, crashed, stopped>>
    /\ notified' = NoCall
    /\ UNCHANGED <<retryVars, notifyVars>>

\* cronManager.AddFunc / client.AsyncAddScheduledJob, in its own goroutine
AsyncAddScheduledJob(name) ==
    /\ ~crashed
    /\ name \in pending
    /\ pending' = pending \ {name}
    /\ entries' = entries \cup {name}
    /\ UNCHANGED <<rev, jobList, todo, cronRunning, jobLock, goroutines, crashed, stopped>>
    /\ notified' = NoCall
    /\ UNCHANGED <<retryVars, notifyVars>>

\* cronManager.Start / client.Start, after the loop
Start ==
    /\ ~crashed
    /\ todo = {}
    /\ ~cronRunning
    /\ ~stopped
    /\ cronRunning' = TRUE
    /\ UNCHANGED <<rev, jobList, todo, pending, entries, jobLock, goroutines, crashed, stopped>>
    /\ notified' = NoCall
    /\ UNCHANGED <<retryVars, notifyVars>>

\* cronManager.Stop / client.Stop: the runner stops firing; nothing else is
\* touched
Stop ==
    /\ ~crashed
    /\ cronRunning
    /\ cronRunning' = FALSE
    /\ stopped' = TRUE
    /\ UNCHANGED <<rev, jobList, todo, pending, entries, jobLock, goroutines, crashed>>
    /\ notified' = NoCall
    /\ UNCHANGED <<retryVars, notifyVars>>

\* a runner that goes on firing after Stop
FireStopped(name) ==
    /\ ~crashed
    /\ name \in entries
    /\ BagCardinality(goroutines) < MaxGoroutines
    /\ goroutines' = goroutines (+) SetToBag({Callback(name)})
    /\ UNCHANGED <<rev, jobList, todo, pending, entries, cronRunning, jobLock, crashed, stopped>>
    /\ notified' = NoCall
    /\ UNCHANGED <<retryVars, notifyVars>>

\* the cron runner fires an entry: the callback starts in a new goroutine
Fire(name) ==
    /\ ~crashed
    /\ cronRunning
    /\ name \in entries
    /\ BagCardinality(goroutines) < MaxGoroutines
    /\ goroutines' = goroutines (+) SetToBag({Callback(name)})
    /\ UNCHANGED <<rev, jobList, todo, pending, entries, cronRunning, jobLock, crashed, stopped>>
    /\ notified' = NoCall
    /\ UNCHANGED <<retryVars, notifyVars>>

-----------------------------------------------------------------------------
(* Job.Run, rev = "main" *)

\* a check that clears the entry it finds
JobRunCheckReleases(g) ==
    /\ ~crashed /\ rev = "main" /\ g.pc = "fired"
    /\ \E jobName \in NameFromJob(jobList, jobList[g.name]) :
          /\ goroutines' = Replace(g, [g EXCEPT !.key = jobName,
                 !.pc = IF ReadFromJobLock(jobLock, jobName)
                        THEN "skipped" ELSE "acquire"])
          /\ jobLock' = DeleteFromJobLock(jobLock, jobName)
    /\ UNCHANGED <<rev, jobList, todo, pending, entries, cronRunning, crashed, stopped>>
    /\ notified' = NoCall
    /\ UNCHANGED <<retryVars, notifyVars>>

\* NameFromJob, then the check: ReadFromJobLock and the early return
JobRunCheck(g) ==
    /\ ~crashed /\ rev = "main" /\ g.pc = "fired"
    /\ \E jobName \in NameFromJob(jobList, jobList[g.name]) :
          goroutines' = Replace(g, [g EXCEPT !.key = jobName,
                 !.pc = IF ReadFromJobLock(jobLock, jobName)
                        THEN "skipped" ELSE "acquire"])
    /\ UNCHANGED <<rev, jobList, todo, pending, entries, cronRunning, jobLock, crashed, stopped>>
    /\ notified' = NoCall
    /\ UNCHANGED <<retryVars, notifyVars>>

\* manager.WriteToJobLock(jobName, "started")
JobRunStart(g) ==
    /\ ~crashed /\ rev = "main" /\ g.pc = "acquire"
    /\ jobLock' = WriteToJobLock(jobLock, g.key, "started")
    /\ goroutines' = Replace(g, [g EXCEPT !.pc = "running"])
    /\ UNCHANGED <<rev, jobList, todo, pending, entries, cronRunning, crashed, stopped>>
    /\ notified' = NoCall
    /\ UNCHANGED <<retryVars, notifyVars>>

\* the deferred manager.DeleteFromJobLock(jobName); Job.Run is back in the
\* callback
JobRunExit(g) ==
    /\ ~crashed /\ rev = "main" /\ g.pc = "returned"
    /\ jobLock' = DeleteFromJobLock(jobLock, g.key)
    /\ goroutines' = Replace(g, [g EXCEPT !.pc = "callback", !.clusterJob = FALSE,
                                    !.stream = "none",
                                    !.condition = NoCondition, !.deletes = 0])
    /\ UNCHANGED <<rev, jobList, todo, pending, entries, cronRunning, crashed, stopped>>
    /\ notified' = NoCall
    /\ UNCHANGED <<retryVars, notifyVars>>

-----------------------------------------------------------------------------
(* The callback over the scheduler package, rev = "pkg": the same steps as   *)
(* Job.Run, made with client.Running, client.StartJob and client.FinishJob    *)

\* the check: client.Running(name, job)
CallbackCheck(g) ==
    /\ ~crashed /\ rev = "pkg" /\ g.pc = "fired"
    /\ goroutines' = Replace(g, [g EXCEPT !.key = jobKey(g.name, jobList[g.name]),
                 !.pc = IF Running(jobLock, g.name, jobList[g.name])
                        THEN "skipped" ELSE "acquire"])
    /\ UNCHANGED <<rev, jobList, todo, pending, entries, cronRunning, jobLock, crashed, stopped>>
    /\ notified' = NoCall
    /\ UNCHANGED <<retryVars, notifyVars>>

\* client.StartJob(name, job)
CallbackStart(g) ==
    /\ ~crashed /\ rev = "pkg" /\ g.pc = "acquire"
    /\ jobLock' = StartJob(jobLock, g.name, jobList[g.name])
    /\ goroutines' = Replace(g, [g EXCEPT !.pc = "running"])
    /\ UNCHANGED <<rev, jobList, todo, pending, entries, cronRunning, crashed, stopped>>
    /\ notified' = NoCall
    /\ UNCHANGED <<retryVars, notifyVars>>

\* the release on the way out: client.FinishJob(name, job)
CallbackFinish(g) ==
    /\ ~crashed /\ rev = "pkg" /\ g.pc = "returned"
    /\ jobLock' = FinishJob(jobLock, g.name, jobList[g.name])
    /\ goroutines' = Replace(g, [g EXCEPT !.pc = "callback", !.clusterJob = FALSE,
                                    !.stream = "none",
                                    !.condition = NoCondition, !.deletes = 0])
    /\ UNCHANGED <<rev, jobList, todo, pending, entries, cronRunning, crashed, stopped>>
    /\ notified' = NoCall
    /\ UNCHANGED <<retryVars, notifyVars>>

-----------------------------------------------------------------------------
(* kubernetes.client.RunJob, rev = "pkg" *)

\* a createJob that keeps the error of its retries to itself
createJobSwallows(fn) ==
    LET r == autoRetry(fn)
    IN  [job |-> TRUE, err |-> Nil]

\* createJob: the checked type assertion turns a nil result into (nil, err)
createJob(fn) ==
    LET r == autoRetry(fn)
    IN  [job |-> r.thing # "nil",
         err |-> IF r.err = "nil" THEN Nil ELSE Error("create", <<>>)]

\* watchJob: thing.(watch.Interface) is unchecked and panics on the nil that
\* autoRetry returns once the attempts are used up
watchJob(fn) ==
    LET r == autoRetry(fn)
    IN  [panic |-> r.thing = "nil",
         err |-> IF r.err = "nil" THEN Nil ELSE Error("watch", <<>>)]

\* deleteJob
deleteJob(fn) ==
    LET r == autoRetry(fn)
    IN  IF r.err = "nil" THEN Nil ELSE Error("delete", <<>>)

\* a RunJob that notes the template error and creates the job all the same
RunJobCreateAnyway(g, tmpl, fn) ==
    IF tmpl = "unreadable"
    THEN [g EXCEPT !.pc = "created", !.clusterJob = TRUE,
                   !.err = Error("template read", <<>>)]
    ELSE IF tmpl = "unparsable"
    THEN [g EXCEPT !.pc = "created", !.clusterJob = TRUE,
                   !.err = Error("template parse", <<>>)]
    ELSE IF createJob(fn).err # Nil
    THEN [g EXCEPT !.pc = "returned", !.err = createJob(fn).err]
    ELSE [g EXCEPT !.pc = "created", !.clusterJob = TRUE]

\* RunJob up to `defer c.deleteJob`: template, merge into the first container,
\* create
RunJobCreate(g, tmpl, fn) ==
    IF tmpl = "unreadable"
    THEN [g EXCEPT !.pc = "returned", !.err = Error("template read", <<>>)]
    ELSE IF tmpl = "unparsable"
    THEN [g EXCEPT !.pc = "returned", !.err = Error("template parse", <<>>)]
    ELSE IF createJob(fn).err # Nil
    THEN [g EXCEPT !.pc = "returned", !.err = createJob(fn).err]
    ELSE [g EXCEPT !.pc = "created", !.clusterJob = TRUE]

\* the delete placed after the watch instead of deferred before it
RunJobWatchNoDefer(g, fn) ==
    IF watchJob(fn).panic
    THEN [g EXCEPT !.pc = "returned", !.panic = TRUE]
    ELSE [g EXCEPT !.pc = "watching"]

\* RunJob from watchJob to `defer events.Stop()`; the deferred deleteJob is
\* pending from here on, whatever happens
RunJobWatch(g, fn) ==
    IF watchJob(fn).panic
    THEN [g EXCEPT !.pc = "deleting", !.panic = TRUE]
    ELSE IF watchJob(fn).err # Nil
    THEN [g EXCEPT !.pc = "deleting", !.err = watchJob(fn).err]
    ELSE [g EXCEPT !.pc = "watching"]

\* one round of the loop over events.ResultChan()
RunJobEvent(g, event) ==
    IF Len(event) > 0 /\ event[1].Type = "Complete"
    THEN [g EXCEPT !.pc = "deleting", !.stream = Read(@, event),
                   !.condition = event[1], !.err = Nil]
    ELSE IF Len(event) > 0 /\ event[1].Type = "Failed"
    THEN [g EXCEPT !.pc = "deleting", !.stream = Read(@, event),
                   !.condition = event[1], !.err = Errorf(event[1].Message)]
    ELSE [g EXCEPT !.stream = Read(@, event)]

\* a closed channel taken for a failure
RunJobClosedFails(g) ==
    [g EXCEPT !.pc = "deleting", !.err = Error("closed", <<>>)]

\* the channel is closed: the loop ends, RunJob returns nil
RunJobClosed(g) == [g EXCEPT !.pc = "deleting", !.err = Nil]

\* the error of the delete returned in place of the outcome of the watch
RunJobDeferredReturnsErr(g, fn) ==
    [g EXCEPT !.pc = "returned", !.deletes = @ + 1, !.dErr = deleteJob(fn) # Nil,
              !.err = IF deleteJob(fn) # Nil THEN deleteJob(fn) ELSE @]

\* the deferred c.deleteJob(clusterJob, job.Namespace): its error is dropped
RunJobDeferred(g, fn) ==
    [g EXCEPT !.pc = "returned", !.deletes = @ + 1, !.dErr = deleteJob(fn) # Nil]

PkgCreate(g) ==
    /\ ~crashed /\ rev = "pkg" /\ g.pc = "running"
    /\ \E tmpl \in Templates, fn \in RemoteFns :
          goroutines' = Replace(g, RunJobCreate(g, tmpl, fn))
    /\ UNCHANGED <<rev, jobList, todo, pending, entries, cronRunning, jobLock, crashed, stopped>>
    /\ notified' = NoCall
    /\ UNCHANGED <<retryVars, notifyVars>>

PkgWatch(g) ==
    /\ ~crashed /\ rev = "pkg" /\ g.pc = "created"
    /\ \E fn \in RemoteFns : goroutines' = Replace(g, RunJobWatch(g, fn))
    /\ UNCHANGED <<rev, jobList, todo, pending, entries, cronRunning, jobLock, crashed, stopped>>
    /\ notified' = NoCall
    /\ UNCHANGED <<retryVars, notifyVars>>

PkgEvent(g) ==
    /\ ~crashed /\ rev = "pkg" /\ g.pc = "watching"
    /\ \E event \in Events : goroutines' = Replace(g, RunJobEvent(g, event))
    /\ UNCHANGED <<rev, jobList, todo, pending, entries, cronRunning, jobLock, crashed, stopped>>
    /\ notified' = NoCall
    /\ UNCHANGED <<retryVars, notifyVars>>

PkgClosed(g) ==
    /\ ~crashed /\ rev = "pkg" /\ g.pc = "watching"
    /\ goroutines' = Replace(g, RunJobClosed(g))
    /\ UNCHANGED <<rev, jobList, todo, pending, entries, cronRunning, jobLock, crashed, stopped>>
    /\ notified' = NoCall
    /\ UNCHANGED <<retryVars, notifyVars>>

PkgDelete(g) ==
    /\ ~crashed /\ rev = "pkg" /\ g.pc = "deleting"
    /\ \E fn \in RemoteFns : goroutines' = Replace(g, RunJobDeferred(g, fn))
    /\ UNCHANGED <<rev, jobList, todo, pending, entries, cronRunning, jobLock, crashed, stopped>>
    /\ notified' = NoCall
    /\ UNCHANGED <<retryVars, notifyVars>>

-----------------------------------------------------------------------------
(* createTaskJob, rev = "main": every remote call is made once *)

JobTaskMsg == <<"E", "r", "r", "o", "r", " ", "c", "r", "e", "a", "t", "i", "n",
                "g", " ", "j", "o", "b", " ", "t", "a", "s", "k">>

\* template, merge into the first container, jobsClient.Create
createTaskJobCreate(g, tmpl, ok) ==
    IF tmpl = "unreadable"
    THEN [g EXCEPT !.pc = "returned", !.err = Error("template read", <<>>)]
    ELSE IF tmpl = "unparsable"
    THEN [g EXCEPT !.pc = "returned", !.err = Error("template parse", <<>>)]
    ELSE IF ~ok
    THEN [g EXCEPT !.pc = "returned", !.err = Error("create", <<>>)]
    ELSE [g EXCEPT !.pc = "created", !.clusterJob = TRUE]

\* jobsClient.Watch: on an error createTaskJob returns at once
createTaskJobWatch(g, ok) ==
    IF ~ok
    THEN [g EXCEPT !.pc = "returned", !.err = Error("watch", <<>>)]
    ELSE [g EXCEPT !.pc = "watching"]

\* one round of the loop over events.ResultChan()
createTaskJobEvent(g, event) ==
    IF Len(event) > 0 /\ event[1].Type = "Complete"
    THEN [g EXCEPT !.pc = "deleting", !.stream = Read(@, event),
                   !.condition = event[1]]
    ELSE IF Len(event) > 0 /\ event[1].Type = "Failed"
    THEN [g EXCEPT !.pc = "deleting", !.stream = Read(@, event),
                   !.condition = event[1], !.err = Error("failed", JobTaskMsg)]
    ELSE [g EXCEPT !.stream = Read(@, event)]

createTaskJobClosed(g) == [g EXCEPT !.pc = "deleting"]

\* jobsClient.Delete after the loop: its error is what createTaskJob returns
createTaskJobDelete(g, ok) ==
    IF ~ok
    THEN [g EXCEPT !.pc = "returned", !.deletes = @ + 1, !.dErr = TRUE,
                   !.err = Error("delete", <<>>)]
    ELSE [g EXCEPT !.pc = "returned", !.deletes = @ + 1]

MainCreate(g) ==
    /\ ~crashed /\ rev = "main" /\ g.pc = "running"
    /\ \E tmpl \in Templates, ok \in BOOLEAN :
          goroutines' = Replace(g, createTaskJobCreate(g, tmpl, ok))
    /\ UNCHANGED <<rev, jobList, todo, pending, entries, cronRunning, jobLock, crashed, stopped>>
    /\ notified' = NoCall
    /\ UNCHANGED <<retryVars, notifyVars>>

MainWatch(g) ==
    /\ ~crashed /\ rev = "main" /\ g.pc = "created"
    /\ \E ok \in BOOLEAN : goroutines' = Replace(g, createTaskJobWatch(g, ok))
    /\ UNCHANGED <<rev, jobList, todo, pending, entries, cronRunning, jobLock, crashed, stopped>>
    /\ notified' = NoCall
    /\ UNCHANGED <<retryVars, notifyVars>>

MainEvent(g) ==
    /\ ~crashed /\ rev = "main" /\ g.pc = "watching"
    /\ \E event \in Events : goroutines' = Replace(g, createTaskJobEvent(g, event))
    /\ UNCHANGED <<rev, jobList, todo, pending, entries, cronRunning, jobLock, crashed, stopped>>
    /\ notified' = NoCall
    /\ UNCHANGED <<retryVars, notifyVars>>

MainClosed(g) ==
    /\ ~crashed /\ rev = "main" /\ g.pc = "watching"
    /\ goroutines' = Replace(g, createTaskJobClosed(g))
    /\ UNCHANGED <<rev, jobList, todo, pending, entries, cronRunning, jobLock, crashed, stopped>>
    /\ notified' = NoCall
    /\ UNCHANGED <<retryVars, notifyVars>>

MainDelete(g) ==
    /\ ~crashed /\ rev = "main" /\ g.pc = "deleting"
    /\ \E ok \in BOOLEAN : goroutines' = Replace(g, createTaskJobDelete(g, ok))
    /\ UNCHANGED <<rev, jobList, todo, pending, entries, cronRunning, jobLock, crashed, stopped>>
    /\ notified' = NoCall
    /\ UNCHANGED <<retryVars, notifyVars>>

-----------------------------------------------------------------------------
(* The end of the callback *)

\* a callback that calls the notifier whatever the run returned
CallbackEndAlways(g) ==
    /\ ~crashed
    /\ g.pc \in {"callback", "skipped"}
    /\ ~g.panic
    /\ goroutines' = Remove(g)
    /\ notified' = [name |-> g.name, err |-> g.err]
    /\ UNCHANGED <<rev, jobList, todo, pending, entries, cronRunning, jobLock, crashed, stopped>>
    /\ UNCHANGED <<retryVars, notifyVars>>

\* the callback returns: an error of the run is handed to the notifier, a
\* skipped run and a clean run end silently; the goroutine is gone
CallbackEnd(g) ==
    /\ ~crashed
    /\ g.pc \in {"callback", "skipped"}
    /\ ~g.panic
    /\ goroutines' = Remove(g)
    /\ notified' = IF g.err # Nil THEN [name |-> g.name, err |-> g.err] ELSE NoCall
    /\ UNCHANGED <<rev, jobList, todo, pending, entries, cronRunning, jobLock, crashed, stopped>>
    /\ UNCHANGED <<retryVars, notifyVars>>

\* a panic leaves the callback.  The goroutine belongs to the cron runner:
\* a runner that does not recover lets the panic end the process ...
PanicCrash(g) ==
    /\ ~crashed
    /\ g.pc = "callback"
    /\ g.panic
    /\ crashed' = TRUE
    /\ UNCHANGED <<rev, jobList, todo, pending, entries, cronRunning, jobLock, goroutines, stopped>>
    /\ notified' = NoCall
    /\ UNCHANGED <<retryVars, notifyVars>>

\* ... a runner that recovers logs it and ends the goroutine
PanicRecovered(g) ==
    /\ ~crashed
    /\ g.pc = "callback"
    /\ g.panic
    /\ goroutines' = Remove(g)
    /\ UNCHANGED <<rev, jobList, todo, pending, entries, cronRunning, jobLock, crashed, stopped>>
    /\ notified' = NoCall
    /\ UNCHANGED <<retryVars, notifyVars>>

-----------------------------------------------------------------------------
(* The scheduler *)

Init ==
    /\ rev \in {"main", "pkg"}
    /\ jobList \in JobLists
    /\ todo = DOMAIN jobList
    /\ pending = {}
    /\ entries = {}
    /\ cronRunning = FALSE
    /\ jobLock = EmptyLock
    /\ goroutines = EmptyBag
    /\ crashed = FALSE
    /\ stopped = FALSE
    /\ notified = NoCall
    /\ notifier = [rev |-> "sentry", dsn |-> FALSE]
    /\ notifyOut = NotNotified
    /\ retryFn = FailsThenOk(0)
    /\ retryOut = NotRun

Next ==
    \/ \E name \in Names : MainLoop(name)
    \/ \E name \in Names : AsyncAddScheduledJob(name)
    \/ Start
    \/ Stop
    \/ \E name \in Names : Fire(name)
    \/ \E g \in Live : JobRunCheck(g)
    \/ \E g \in Live : JobRunStart(g)
    \/ \E g \in Live : JobRunExit(g)
    \/ \E g \in Live : CallbackCheck(g)
    \/ \E g \in Live : CallbackStart(g)
    \/ \E g \in Live : CallbackFinish(g)
    \/ \E g \in Live : PkgCreate(g)
    \/ \E g \in Live : PkgWatch(g)
    \/ \E g \in Live : PkgEvent(g)
    \/ \E g \in Live : PkgClosed(g)
    \/ \E g \in Live : PkgDelete(g)
    \/ \E g \in Live : MainCreate(g)
    \/ \E g \in Live : MainWatch(g)
    \/ \E g \in Live : MainEvent(g)
    \/ \E g \in Live : MainClosed(g)
    \/ \E g \in Live : MainDelete(g)
    \/ \E g \in Live : CallbackEnd(g)
    \/ \E g \in Live : PanicCrash(g)
    \/ \E g \in Live : PanicRecovered(g)

Spec == Init /\ [][Next]_vars

\* the steps the goroutine of callback g can take
GoroutineStep(g) ==
    \/ JobRunCheck(g) \/ JobRunStart(g) \/ JobRunExit(g)
    \/ CallbackCheck(g) \/ CallbackStart(g) \/ CallbackFinish(g)
    \/ PkgCreate(g) \/ PkgWatch(g) \/ PkgEvent(g) \/ PkgClosed(g) \/ PkgDelete(g)
    \/ MainCreate(g) \/ MainWatch(g) \/ MainEvent(g) \/ MainClosed(g)
    \/ MainDelete(g)
    \/ CallbackEnd(g) \/ PanicCrash(g) \/ PanicRecovered(g)

-----------------------------------------------------------------------------
(* autoRetry on its own: every operation of RetryFns is handed to it *)

RetryInit ==
    /\ rev = "pkg"
    /\ jobList = [name \in Names |-> Job("", <<>>, <<"c">>)]
    /\ todo = {}
    /\ pending = {}
    /\ entries = {}
    /\ cronRunning = FALSE
    /\ jobLock = EmptyLock
    /\ goroutines = EmptyBag
    /\ crashed = FALSE
    /\ stopped = FALSE
    /\ notified = NoCall
    /\ notifier = [rev |-> "sentry", dsn |-> FALSE]
    /\ notifyOut = NotNotified
    /\ retryFn \in RetryFns
    /\ retryOut = NotRun

RetryCall ==
    /\ retryOut = NotRun
    /\ retryOut' = autoRetry(retryFn)
    /\ UNCHANGED retryFn
    /\ UNCHANGED <<schedVars, notifyVars>>

RetryNext ==
    /\ retryOut # NotRun
    /\ retryFn' \in RetryFns
    /\ retryOut' = NotRun
    /\ UNCHANGED <<schedVars, notifyVars>>

NextRetry == RetryCall \/ RetryNext

SpecRetry == RetryInit /\ [][NextRetry]_vars

-----------------------------------------------------------------------------
(* notifier on its own: every sequence of delivery outcomes, every client *)

NotifyInit ==
    /\ rev = "pkg"
    /\ jobList = [name \in Names |-> Job("", <<>>, <<"c">>)]
    /\ todo = {}
    /\ pending = {}
    /\ entries = {}
    /\ cronRunning = FALSE
    /\ jobLock = EmptyLock
    /\ goroutines = EmptyBag
    /\ crashed = FALSE
    /\ stopped = FALSE
    /\ notified = NoCall
    /\ notifier \in Notifiers
    /\ notifyOut = NotNotified
    /\ retryFn \in RetryFns
    /\ retryOut = NotRun

NotifyCall ==
    /\ notifyOut = NotNotified
    /\ notifyOut' = Notify(NewClient(notifier), retryFn)
    /\ UNCHANGED <<notifier, retryVars, schedVars>>

NotifyNext ==
    /\ notifyOut # NotNotified
    /\ retryFn' \in RetryFns
    /\ notifyOut' = NotNotified
    /\ UNCHANGED <<notifier, retryOut, schedVars>>

NextNotify == NotifyCall \/ NotifyNext

SpecNotify == NotifyInit /\ [][NextNotify]_vars

-----------------------------------------------------------------------------
(* Properties *)

\* the runs that hold the lock entry `key`
InFlightOn(key) == {g \in Live : InFlight(g) /\ g.key = key}

\* the (name, namespace) pair of the entry a callback was fired for
Pair(g) == <<g.name, jobList[g.name].Namespace>>

AlwaysFails(fn) == \A i \in DOMAIN fn : fn[i] # "ok"

\* C1: for every job key, at most one run is between the write of its lock
\* entry and the release of it, whatever the interleaving of the triggers.
C1_MutualExclusion ==
    \A g \in Live : Copies(InFlightOn(g.key)) <= 1

\* C2: when a run that took the lock ends - clean, with any error, or
\* unwinding a panic - the entry of its key is not in the lock table.
C2_GuaranteedRelease ==
    [][\A g \in Live :
          (g.pc = "returned" /\ CopiesIn(g, goroutines') < CopiesIn(g, goroutines))
              => g.key \notin DOMAIN jobLock']_vars

\* a run that unwinds a panic has left, and the entry of its key is gone
C2_Witness ==
    \E g \in Live :
        g.pc = "callback" /\ g.panic /\ g.key \notin DOMAIN jobLock

\* C3: a trigger that finds its key running is dropped and the run it found
\* goes on undisturbed: the lock entry of a run stays in the table until the
\* run itself releases it.
C3_LockHeldUntilRelease ==
    \A g \in Live :
        /\ g.pc = "skipped" => ~InFlight(g)
        /\ InFlight(g) => g.key \in DOMAIN jobLock

\* C4: a trigger is turned away only by a run of the same name and the same
\* namespace; runs of different (name, namespace) pairs never block each other.
C4_ScopedByNameAndNamespace ==
    [][\A g \in Live : \A key \in Names \cup {jobKey(g.name, jobList[g.name])} :
          (/\ g.pc = "fired"
           /\ goroutines' = Replace(g, [g EXCEPT !.key = key, !.pc = "skipped"]))
              => \E h \in Live : InFlight(h) /\ Pair(h) = Pair(g)]_vars

\* C5: a RunJob that created the remote job has made exactly one delete pass
\* for it when it ends, however the watch went (Complete, Failed, stream
\* closed, watch not established); a RunJob that created nothing makes none.
C5_DeleteOnce ==
    \A g \in Live :
        /\ g.deletes <= 1
        /\ (rev = "pkg" /\ g.pc = "returned")
              => g.deletes = (IF g.clusterJob THEN 1 ELSE 0)

\* the watch was not established, and the delete pass was made all the same
C5_Witness ==
    \E g \in Live :
        rev = "pkg" /\ g.pc = "returned" /\ g.panic /\ g.clusterJob /\ g.deletes = 1

\* C6: after an event with a Failed condition of message M, RunJob returns an
\* error whose text contains M, and the one delete pass comes after the event.
C6_FailedCarriesMessage ==
    \A g \in Live :
        (rev = "pkg" /\ g.condition.Type = "Failed" /\ g.pc \in {"deleting", "returned"})
            => /\ g.err # Nil
               /\ Contains(g.err.msg, g.condition.Message)
               /\ g.deletes = (IF g.pc = "returned" THEN 1 ELSE 0)

\* C7: what RunJob returns is what the watch decided - nil after Complete or
\* a closed stream, the error after Failed - whether the delete worked or not.
C7_DeleteKeepsOutcome ==
    \A g \in Live :
        (rev = "pkg" /\ g.pc = "returned" /\ g.deletes = 1 /\ ~g.panic)
            => g.err = (IF g.condition.Type = "Failed"
                        THEN Errorf(g.condition.Message) ELSE Nil)

\* both outcomes of the watch, each with a delete that failed
C7_Witness ==
    /\ \E g \in Live :
          /\ rev = "pkg" /\ g.pc = "returned" /\ g.dErr
          /\ g.condition.Type = "Failed" /\ g.err = Errorf(g.condition.Message)
    /\ \E g \in Live :
          /\ rev = "pkg" /\ g.pc = "returned" /\ g.dErr
          /\ g.condition.Type # "Failed" /\ g.err = Nil

C10_RetryBound ==
    (retryOut # NotRun /\ AlwaysFails(retryFn))
        => /\ retryOut.calls = 3
           /\ retryOut.thing = "nil"
           /\ retryOut.err = retryFn[3]

\* the second and the third call fail differently
C10_Witness ==
    /\ retryOut # NotRun
    /\ AlwaysFails(retryFn)
    /\ retryFn[2] # retryFn[3]
    /\ retryOut.err = retryFn[3]

\* fn fails on its first k calls and answers its call k + 1
FailsExactly(fn, k) ==
    /\ \A i \in 1..k : fn[i] # "ok"
    /\ fn[k + 1] = "ok"

\* C11: handed an operation that fails exactly k times (k = 0, 1, 2) and then
\* succeeds, autoRetry returns the result of that call and a nil error after
\* exactly k + 1 calls and exactly k pauses: no call follows the success.
C11_RetrySuccess ==
    \A k \in 0..2 :
        (retryOut # NotRun /\ FailsExactly(retryFn, k))
            => /\ retryOut.thing = "thing"
               /\ retryOut.err = "nil"
               /\ retryOut.calls = k + 1
               /\ retryOut.sleeps = k

\* two failing calls, the third succeeds, two pauses
C11_Witness ==
    /\ retryOut # NotRun
    /\ FailsExactly(retryFn, 2)
    /\ retryOut.calls = 3
    /\ retryOut.sleeps = 2
    /\ retryOut.err = "nil"

C13_ClosedStreamIsSuccess ==
    \A g \in Live :
        (/\ rev = "pkg" /\ g.pc \in {"deleting", "returned"}
         /\ g.clusterJob /\ ~g.panic /\ g.stream # "terminal")
            => g.err = Nil

\* a stream closed after events without a terminal condition, and a stream
\* closed before any event
C13_Witness ==
    /\ \E g \in Live :
          /\ rev = "pkg" /\ g.pc = "returned" /\ ~g.panic
          /\ g.stream = "idle" /\ g.err = Nil
    /\ \E g \in Live :
          /\ rev = "pkg" /\ g.pc = "returned" /\ ~g.panic /\ g.clusterJob
          /\ g.stream = "none" /\ g.err = Nil

\* C14: with no channel named in its environment, Notify returns nil and asks
\* for no delivery, whatever the message and the error.
C14_UnconfiguredIsSilent ==
    (notifyOut # NotNotified /\ ~notifier.dsn)
        => /\ notifyOut.err = "nil"
           /\ notifyOut.deliveries = 0

\* C15: with a channel named, Notify asks for at most 3 deliveries: it returns
\* nil at the first that succeeds and asks for no other; when all 3 fail it
\* returns the error of the third and asks for nothing more.
C15_NotifyRetry ==
    (notifyOut # NotNotified /\ notifier.dsn)
        => /\ notifyOut.deliveries <= 3
           /\ \A k \in 0..2 :
                 FailsExactly(retryFn, k)
                     => notifyOut.err = "nil" /\ notifyOut.deliveries = k + 1
           /\ (\A i \in 1..3 : retryFn[i] # "ok")
                 => notifyOut.err = retryFn[3] /\ notifyOut.deliveries = 3

\* three deliveries failed, the second and the third differently
C15_Witness ==
    /\ notifyOut # NotNotified
    /\ notifier.dsn
    /\ \A i \in 1..3 : retryFn[i] # "ok"
    /\ retryFn[2] # retryFn[3]
    /\ notifyOut.err = retryFn[3]
    /\ notifyOut.deliveries = 3

\* C16: on every lock table the scheduler reaches, removing the entry of a key
\* that is not held changes nothing, removing twice gives the table that
\* removing once gives, and the entries of the other keys stay as they are -
\* for client.FinishJob and for Manager.DeleteFromJobLock.
C16_FinishIdempotent ==
    /\ \A name \in Names :
          LET job == jobList[name]
              once == FinishJob(jobLock, name, job)
          IN  /\ ~Running(jobLock, name, job) => once = jobLock
              /\ FinishJob(once, name, job) = once
              /\ \A k \in DOMAIN jobLock \ {jobKey(name, job)} :
                    k \in DOMAIN once /\ once[k] = jobLock[k]
    /\ \A template \in Names :
          LET once == DeleteFromJobLock(jobLock, template)
          IN  /\ ~ReadFromJobLock(jobLock, template) => once = jobLock
              /\ DeleteFromJobLock(once, template) = once
              /\ \A k \in DOMAIN jobLock \ {template} :
                    k \in DOMAIN once /\ once[k] = jobLock[k]

\* two runs took the same key; the first has released it, the second is
\* about to release a key that is not held
C16_Witness ==
    \E g \in Live :
        /\ g.pc = "returned"
        /\ g.key \notin DOMAIN jobLock
        /\ \E h \in Live : h.pc = "callback" /\ h.key = g.key

\* C17: a watch that is not established in 3 attempts makes RunJob return an
\* error: no run unwinds a panic and the process does not die of one.
C17_WatchFailureIsError ==
    /\ ~crashed
    /\ \A g \in Live : ~g.panic

\* C18: the lookup of a job's definition gives the job's own name, so the lock
\* key of a run of Job.Run is the name of the entry that fired.
C18_LookupGivesOwnName ==
    \A g \in Live :
        (rev = "main" /\ g.pc # "fired") => g.key = g.name

\* C19: a delete that failed is not what the run returns, and the callback of
\* that run ends with a notifier call that reports the delete failure.
C19_DeleteFailureNotified ==
    /\ [](\A g \in Live :
            (g.pc \in {"returned", "callback"} /\ g.dErr) => g.err.kind # "delete")
    /\ [][\A g \in Live :
            (/\ g.pc = "callback" /\ g.dErr /\ ~g.panic
             /\ goroutines' = Remove(g))
                => /\ notified'.name = g.name
                   /\ notified'.err.kind = "delete"]_vars

\* C20: the loop of RunJob is left at the first event that carries a Complete
\* or a Failed condition, with nil for Complete and an error for Failed;
\* while no such event was read the loop goes on.
C20_TerminalDetection ==
    \A g \in Live :
        rev = "pkg"
            => /\ g.pc = "watching" => g.stream # "terminal"
               /\ (g.pc \in {"deleting", "returned"} /\ g.stream = "terminal")
                     => /\ g.condition.Type \in Terminal
                        /\ g.condition.Type = "Complete" => g.err = Nil
                        /\ g.condition.Type = "Failed" => g.err # Nil

\* the keys a run may take
Keys == Names \cup {jobKey(name, jobList[name]) : name \in Names}

Released(g) ==
    /\ g.pc = "returned"
    /\ goroutines' = Replace(g, [g EXCEPT !.pc = "callback", !.clusterJob = FALSE,
                                           !.stream = "none",
                                           !.condition = NoCondition,
                                           !.deletes = 0])

\* the callback of g ends
Ended(g) ==
    /\ g.pc = "callback" /\ ~g.panic
    /\ goroutines' = Remove(g)

\* C22: a create that fails on all 3 attempts makes RunJob return a non-nil
\* create error with no remote job, no watch and no event read; the run then
\* releases its lock entry and its callback reports that error.
C22_CreateFailureAborts ==
    /\ [](\A fn \in RemoteFns :
            (\A i \in 1..Attempts : fn[i] # "ok")
                => createJob(fn).err # Nil /\ ~createJob(fn).job)
    /\ [](\A g \in Live :
            g.err.kind = "create"
                => /\ g.pc \in {"returned", "callback"}
                   /\ ~g.clusterJob /\ g.stream = "none" /\ g.deletes = 0)
    /\ [][\A g \in Live :
            g.err.kind = "create"
                => /\ Released(g) => g.key \notin DOMAIN jobLock'
                   /\ Ended(g) => notified' = [name |-> g.name, err |-> g.err]]_vars

\* the create error of a run of RunJob was reported, and no lock is held
C22_Witness ==
    /\ rev = "pkg"
    /\ notified.err.kind = "create"
    /\ jobLock = EmptyLock

\* C23: the callback of a run that returned an error makes one notifier call,
\* for that error, as it ends; the callback of a run that returned nil makes
\* none; no other step makes a notifier call, and the process lives on.
C23_OneNotificationPerError ==
    /\ [][\A g \in Live :
            Ended(g)
                => /\ notified' = IF g.err # Nil
                                  THEN [name |-> g.name, err |-> g.err]
                                  ELSE NoCall
                   /\ ~crashed']_vars
    /\ [][notified' # NoCall
            => \E g \in Live :
                  Ended(g) /\ g.err # Nil
                      /\ notified' = [name |-> g.name, err |-> g.err]]_vars
    /\ [](notified # NoCall => ~crashed)

\* the error of a Failed condition was reported; the runner goes on
C23_Witness ==
    /\ notified.err.kind = "failed"
    /\ cronRunning
    /\ ~crashed
    /\ \E name \in Names : ENABLED Fire(name)

TemplateErrors == {"template read", "template parse"}

\* C24: a template that cannot be read or parsed makes the run return an
\* error with no create, watch or delete call; the run releases its lock
\* entry, and once its callback has ended the runner can fire the job again.
C24_TemplateErrorIsLocal ==
    /\ [](\A g \in Live :
            g.err.kind \in TemplateErrors
                => /\ g.pc \in {"returned", "callback"}
                   /\ ~g.clusterJob /\ g.stream = "none" /\ g.deletes = 0)
    /\ [][\A g \in Live :
            (g.err.kind \in TemplateErrors /\ Released(g))
                => g.key \notin DOMAIN jobLock']_vars
    /\ []((notified.err.kind \in TemplateErrors /\ cronRunning)
            => ENABLED Fire(notified.name))

\* the callback of a run that could not parse its template has ended, and a
\* later run of the same job is in flight
C24_Witness ==
    /\ notified.err.kind = "template parse"
    /\ \E g \in Live : g.name = notified.name /\ InFlight(g)

\* C25: a run leaves the watch loop only on a terminal condition or a closed
\* stream; as long as it is in the loop its key stays in the lock table and
\* every trigger that checks that key is turned away.
C25_WaitingRunKeepsKey ==
    /\ [](\A g \in Live : g.pc = "watching" => g.key \in DOMAIN jobLock)
    /\ [][\A g \in Live : \A h \in Live :
            (/\ g.pc = "watching" /\ h.pc = "fired"
             /\ \E pc \in {"skipped", "acquire"} :
                   goroutines' = Replace(h, [h EXCEPT !.key = g.key, !.pc = pc]))
                => goroutines' = Replace(h, [h EXCEPT !.key = g.key,
                                                      !.pc = "skipped"])]_vars

\* C26: in every state a key is in the lock table if and only if exactly one
\* run of that key has taken the lock and not yet released it.
C26_LockMirrorsInFlight ==
    \A key \in Keys :
        key \in DOMAIN jobLock <=> Copies(InFlightOn(key)) = 1

====
